---- MODULE Spec2Model ----
(***************************************************************************)
(* Binary resolution and self-update of the codebook-lsp language server   *)
(* (src/src/lib.rs).  Strings are sequences of tokens, paths are sequences  *)
(* of path components, Option is the empty or one-element sequence, and a   *)
(* Result is a record [ok, val].                                            *)
(***************************************************************************)
EXTENDS Integers, Sequences, FiniteSets, TLC

VARIABLES
    platform,      \* zed::current_platform(): [os, arch], fixed for the process
    fs,            \* entries of the working directory: name -> kind
    marker,        \* content of the .version file, None when the file is absent
    binary_cache,  \* CodebookExtension.binary_cache : Option<PathBuf>
    pc,            \* position of the running get_binary call
    which,         \* worktree.which(EXTENSION_LSP_NAME) of the running call
    feed,          \* Option<Result<GithubRelease>>: what the release query returned
    release,       \* Option<GithubRelease> the running call is installing
    result,        \* Option<Result<CodebookBinary>> of the running call
    emitted,       \* installation statuses emitted by the running call, in order
    log,           \* host / OS operations performed by the running call, in order
    start,         \* cache, marker and directory as they were when the call began
    failed_before  \* whether this instance's previous call returned an error

vars == <<platform, fs, marker, binary_cache, pc, which, feed, release,
          result, emitted, log, start, failed_before>>

-----------------------------------------------------------------------------
(* Bounds of the model *)

\* release versions the feed can publish are "1" .. "MaxVersion"
MaxVersion == 2

-----------------------------------------------------------------------------
(* Option and Result *)

None == <<>>
Some(x) == <<x>>
Ok(v) == [ok |-> TRUE, val |-> v]
Err(e) == [ok |-> FALSE, val |-> e]

-----------------------------------------------------------------------------
(* Constants of the program *)

EXTENSION_LSP_NAME == <<"codebook-lsp">>
VERSION_FILE == <<".version">>
ENV_RUST_LOG == "RUST_LOG"
LOG_LEVEL_DEBUG == "debug"
LOG_LEVEL_INFO == "info"

Oses == {"Mac", "Linux", "Windows"}
Architectures == {"Aarch64", "X8664", "X86"}

Versions == {<<ToString(i)>> : i \in 1..MaxVersion}

\* whitespace tokens, removed at both ends by str::trim
Whitespace == {" ", "\n"}

-----------------------------------------------------------------------------
(* Strings and paths *)

starts_with(s, p) == Len(s) >= Len(p) /\ SubSeq(s, 1, Len(p)) = p

RECURSIVE trim_start(_)
trim_start(s) ==
    IF s # <<>> /\ Head(s) \in Whitespace THEN trim_start(Tail(s)) ELSE s

RECURSIVE trim_end(_)
trim_end(s) ==
    IF s # <<>> /\ s[Len(s)] \in Whitespace
    THEN trim_end(SubSeq(s, 1, Len(s) - 1)) ELSE s

trim(s) == trim_end(trim_start(s))

\* PathBuf::join of a one-component relative path
join(dir, file) == dir \o <<file>>

\* Path::file_name: the last component
file_name(path) == path[Len(path)]

-----------------------------------------------------------------------------
(* CodebookBinary *)

CodebookBinary_new(path, log_level) ==
    [path |-> path, env |-> <<<<ENV_RUST_LOG, log_level>>>>]

-----------------------------------------------------------------------------
(* The working directory *)

\* kinds of a directory entry: a version directory is "dir" without the
\* binary, "dirbin" with it, "dirbinx" with it and the executable bit set
Kinds == {"absent", "file", "dir", "dirbin", "dirbinx"}

get_version_directory_path(version) ==
    <<EXTENSION_LSP_NAME \o <<"-">> \o version>>

\* the binary file name without the Windows extension
get_binary_filename_bare(plat) == EXTENSION_LSP_NAME

get_binary_filename(plat) ==
    IF plat.os = "Windows" THEN EXTENSION_LSP_NAME \o <<".exe">>
    ELSE EXTENSION_LSP_NAME

\* a file that shares the version-directory prefix, and a directory that
\* does not
NotesFile == EXTENSION_LSP_NAME \o <<"-">> \o <<"notes">>
OtherDir == <<"codebook">> \o <<"-">> \o <<"1">>

VersionDirNames == {file_name(get_version_directory_path(v)) : v \in Versions}
EntryNames == VersionDirNames \cup {EXTENSION_LSP_NAME, NotesFile, OtherDir}

is_dir(kind) == kind \in {"dir", "dirbin", "dirbinx"}

\* Path::exists for the paths the program builds: an entry of the working
\* directory, or the binary inside one of its directories; the PATH result
\* lies outside the working directory and is never probed
exists(path, plat, dir) ==
    IF Len(path) = 1
    THEN path[1] \in DOMAIN dir /\ dir[path[1]] # "absent"
    ELSE /\ Len(path) = 2
         /\ path[1] \in DOMAIN dir
         /\ dir[path[1]] \in {"dirbin", "dirbinx"}
         /\ path[2] = get_binary_filename(plat)

\* fs::read_dir("."): the names present, the marker file included
read_dir(dir, mark) ==
    {n \in DOMAIN dir : dir[n] # "absent"}
        \cup (IF mark = None THEN {} ELSE {VERSION_FILE})

-----------------------------------------------------------------------------
(* The fallback chain *)

find_development_binary(plat, dir) ==
    LET dev_path == <<EXTENSION_LSP_NAME>>
        binary == CodebookBinary_new(dev_path, LOG_LEVEL_DEBUG)
    IN  IF exists(dev_path, plat, dir)
        THEN Ok(Some([binary EXCEPT
                        !.env = Append(@, <<"RUST_BACKTRACE", "1">>)]))
        ELSE Ok(None)

\* find_system_binary that never finds the binary on the PATH
find_system_binary_none(w) == Ok(None)

\* w is worktree.which(EXTENSION_LSP_NAME)
find_system_binary(w) ==
    IF w # None THEN Ok(Some(CodebookBinary_new(w[1], LOG_LEVEL_INFO)))
    ELSE Ok(None)

\* get_cached_binary without the existence check
get_cached_binary_unchecked(cache, plat, dir) ==
    IF cache # None
    THEN Ok(Some(CodebookBinary_new(cache[1], LOG_LEVEL_INFO)))
    ELSE Ok(None)

\* get_cached_binary that never answers from the cache
get_cached_binary_never(cache, plat, dir) == Ok(None)

get_cached_binary(cache, plat, dir) ==
    IF cache # None /\ exists(cache[1], plat, dir)
    THEN Ok(Some(CodebookBinary_new(cache[1], LOG_LEVEL_INFO)))
    ELSE Ok(None)

\* get_binary probing the PATH before the development binary
get_binary_path_first(plat, dir, w, cache) ==
    LET dev == find_development_binary(plat, dir)
        sys == find_system_binary(w)
        cached == get_cached_binary(cache, plat, dir)
    IN  IF sys.val # None THEN sys.val
        ELSE IF dev.val # None THEN dev.val
        ELSE IF cached.val # None THEN cached.val
        ELSE None

\* the three local steps of get_binary; None when none of them answers and
\* ensure_latest_binary is entered
get_binary(plat, dir, w, cache) ==
    LET dev == find_development_binary(plat, dir)
        sys == find_system_binary(w)
        cached == get_cached_binary(cache, plat, dir)
    IN  IF dev.val # None THEN dev.val
        ELSE IF sys.val # None THEN sys.val
        ELSE IF cached.val # None THEN cached.val
        ELSE None

-----------------------------------------------------------------------------
(* Version store *)

\* read_version_file without the trim
read_version_file_untrimmed(mark) ==
    IF mark = None THEN Err(<<"Failed to read version file: ">>)
    ELSE Ok(mark[1])

read_version_file(mark) ==
    IF mark = None THEN Err(<<"Failed to read version file: ">>)
    ELSE Ok(trim(mark[1]))

\* get_cached_binary_path trusting the marker without probing the binary
get_cached_binary_path_trusting(mark, plat, dir) ==
    LET version == read_version_file(mark) IN
    IF ~version.ok THEN version
    ELSE Ok(join(get_version_directory_path(version.val),
                 get_binary_filename(plat)))

get_cached_binary_path(mark, plat, dir) ==
    LET version == read_version_file(mark) IN
    IF ~version.ok THEN version
    ELSE LET version_dir == get_version_directory_path(version.val)
             binary_path == join(version_dir, get_binary_filename(plat))
         IN  IF ~exists(binary_path, plat, dir)
             THEN Err(<<"Binary not found at expected path: ">>)
             ELSE Ok(binary_path)

load_existing_binary(mark, plat, dir) ==
    LET path == get_cached_binary_path(mark, plat, dir) IN
    IF ~path.ok THEN path
    ELSE Ok(CodebookBinary_new(path.val, LOG_LEVEL_INFO))

\* check_for_update that installs only a release newer than the marker
check_for_update_newer_only(latest, mark) ==
    IF ~latest.ok THEN latest
    ELSE LET current_version == read_version_file(mark)
             number(v) == IF v \in Versions
                          THEN CHOOSE i \in 1..MaxVersion : v = <<ToString(i)>>
                          ELSE 0
         IN  IF current_version.ok
                  /\ number(current_version.val) >= number(latest.val.version)
             THEN Ok(None)
             ELSE Ok(Some(latest.val))

\* latest is the Result of zed::latest_github_release
\* check_for_update that reports every release of the feed as an update
check_for_update_always(latest, mark) ==
    IF ~latest.ok THEN latest ELSE Ok(Some(latest.val))

check_for_update(latest, mark) ==
    IF ~latest.ok THEN latest
    ELSE LET current_version == read_version_file(mark) IN
         IF current_version.ok /\ current_version.val = latest.val.version
         THEN Ok(None)
         ELSE Ok(Some(latest.val))

-----------------------------------------------------------------------------
(* Platform resolver *)

\* asset_name with the tar.gz archive on every OS
asset_name_tar_everywhere(os, arch) ==
    IF arch = "X86" THEN Err(<<"x86 architecture is not supported">>)
    ELSE LET arch_name == IF arch = "Aarch64" THEN "aarch64" ELSE "x86_64"
             os_str == CASE os = "Mac" -> "apple-darwin"
                         [] os = "Linux" -> "unknown-linux-musl"
                         [] os = "Windows" -> "pc-windows-msvc"
             descriptor == <<arch_name, "-", os_str>>
             name == EXTENSION_LSP_NAME
                       \o <<"-", arch_name, "-", os_str, ".", "tar.gz">>
         IN  Ok(<<name, descriptor>>)

asset_name(os, arch) ==
    IF arch = "X86" THEN Err(<<"x86 architecture is not supported">>)
    ELSE LET arch_name == IF arch = "Aarch64" THEN "aarch64" ELSE "x86_64"
             os_str == CASE os = "Mac" -> "apple-darwin"
                         [] os = "Linux" -> "unknown-linux-musl"
                         [] os = "Windows" -> "pc-windows-msvc"
             file_ext == IF os = "Windows" THEN "zip" ELSE "tar.gz"
             descriptor == <<arch_name, "-", os_str>>
             name == EXTENSION_LSP_NAME
                       \o <<"-", arch_name, "-", os_str, ".", file_ext>>
         IN  Ok(<<name, descriptor>>)

RECURSIVE find(_, _)
\* Iterator::find on the asset list: the first asset with that name
find(assets, name) ==
    IF assets = <<>> THEN None
    ELSE IF Head(assets).name = name THEN Some(Head(assets))
    ELSE find(Tail(assets), name)

find_compatible_asset(rel, plat) ==
    LET an == asset_name(plat.os, plat.arch) IN
    IF ~an.ok THEN an
    ELSE LET found == find(rel.assets, an.val[1]) IN
         IF found = None
         THEN Err(<<"No compatible binary found for ">> \o an.val[2])
         ELSE Ok(found[1])

\* DownloadedFileType chosen by download_binary
downloaded_file_type(plat) ==
    IF plat.os = "Windows" THEN "Zip" ELSE "GzipTar"

-----------------------------------------------------------------------------
(* Cleanup *)

\* the removal test without the comparison with the current directory
should_remove_current_too(name_str, current_dir_name, kind) ==
    /\ starts_with(name_str, EXTENSION_LSP_NAME \o <<"-">>)
    /\ is_dir(kind)

\* the test cleanup_old_versions applies to one directory entry
should_remove(name_str, current_dir_name, kind) ==
    /\ starts_with(name_str, EXTENSION_LSP_NAME \o <<"-">>)
    /\ name_str # current_dir_name
    /\ is_dir(kind)

kind_of(n, dir) == IF n \in DOMAIN dir THEN dir[n] ELSE "file"

\* the entries cleanup_old_versions attempts to remove
cleanup_candidates(dir, mark, current_version_dir) ==
    {n \in read_dir(dir, mark) :
        should_remove(n, file_name(current_version_dir), kind_of(n, dir))}

-----------------------------------------------------------------------------
(* Inputs: the platform, the PATH lookup, the release feed, the marker *)

Platforms == [os : Oses, arch : Architectures]

WhichResults == {None, Some(<<<<"/usr/local/bin">>, EXTENSION_LSP_NAME>>)}

Asset(os, arch) ==
    LET name == asset_name(os, arch).val[1] IN
    [name |-> name, download_url |-> <<"https://">> \o name]

AllAssets ==
    <<Asset("Mac", "Aarch64"), Asset("Mac", "X8664"),
      Asset("Linux", "Aarch64"), Asset("Linux", "X8664"),
      Asset("Windows", "Aarch64"), Asset("Windows", "X8664")>>

\* a release carries every platform's asset, or the Linux x86_64 one alone
AssetLists == {AllAssets, <<Asset("Linux", "X8664")>>}

\* zed::latest_github_release: an error, or the latest release
Feeds ==
    {Err(<<"network">>)}
        \cup {Ok([version |-> v, assets |-> a]) : v \in Versions, a \in AssetLists}

\* what the marker file can hold: a version, possibly followed by a newline
MarkerContents ==
    {None} \cup {Some(v \o pad) : v \in Versions, pad \in {<<>>, <<"\n">>}}

Status(tag, msg) == [tag |-> tag, msg |-> msg]
CheckingForUpdate == Status("CheckingForUpdate", <<>>)
Downloading == Status("Downloading", <<>>)
StatusNone == Status("None", <<>>)
Failed(msg) == Status("Failed", <<"Failed to install release: ">> \o msg)

-----------------------------------------------------------------------------
(* Initial state: CodebookExtension::new() in a fresh working directory *)

Init ==
    /\ platform \in Platforms
    /\ fs = [n \in EntryNames |->
                IF n = NotesFile THEN "file"
                ELSE IF n = OtherDir THEN "dirbin"
                ELSE "absent"]
    /\ marker = None
    /\ binary_cache = None
    /\ pc = "idle"
    /\ which = None
    /\ feed = None
    /\ release = None
    /\ result = None
    /\ emitted = <<>>
    /\ log = <<>>
    /\ start = None
    /\ failed_before = FALSE

-----------------------------------------------------------------------------
(* get_binary, step by step *)

\* get_binary that stores every locally found path in the cache
GetBinary_caching ==
    /\ pc = "idle"
    /\ \E w \in WhichResults :
         LET local == get_binary(platform, fs, w, binary_cache) IN
         /\ which' = w
         /\ start' = Some([cache |-> binary_cache, marker |-> marker, fs |-> fs])
         /\ IF local # None
            THEN /\ result' = Some(Ok(local[1]))
                 /\ binary_cache' = Some(local[1].path)
                 /\ pc' = "done"
            ELSE result' = None /\ pc' = "ensure" /\ UNCHANGED binary_cache
    /\ UNCHANGED <<platform, fs, marker, feed, release, emitted, log,
                   failed_before>>

GetBinary ==
    /\ pc = "idle"
    /\ \E w \in WhichResults :
         LET local == get_binary(platform, fs, w, binary_cache) IN
         /\ which' = w
         /\ start' = Some([cache |-> binary_cache, marker |-> marker, fs |-> fs])
         /\ IF local # None
            THEN result' = Some(Ok(local[1])) /\ pc' = "done"
            ELSE result' = None /\ pc' = "ensure"
    /\ UNCHANGED <<platform, fs, marker, binary_cache, feed, release, emitted,
                   log,
                   failed_before>>

EnsureLatestBinary ==
    /\ pc = "ensure"
    /\ emitted' = Append(emitted, CheckingForUpdate)
    /\ pc' = "check"
    /\ UNCHANGED <<platform, fs, marker, binary_cache, which, feed, release,
                   result, log, start,
                   failed_before>>

CheckForUpdate ==
    /\ pc = "check"
    /\ \E f \in Feeds :
         LET update == check_for_update(f, marker) IN
         /\ feed' = Some(f)
         /\ log' = Append(log, IF f.ok THEN "latest_github_release"
                                ELSE "latest_github_release failed")
         /\ IF update.ok /\ update.val # None
            THEN /\ release' = update.val
                 /\ emitted' = Append(emitted, Downloading)
                 /\ pc' = "install"
            ELSE /\ pc' = "load"
                 /\ UNCHANGED <<release, emitted>>
    /\ UNCHANGED <<platform, fs, marker, binary_cache, which, result, start,
                   failed_before>>

LoadExistingBinary ==
    /\ pc = "load"
    /\ result' = Some(load_existing_binary(marker, platform, fs))
    /\ pc' = "finish"
    /\ UNCHANGED <<platform, fs, marker, binary_cache, which, feed, release,
                   emitted, log, start,
                   failed_before>>

\* a failed install that falls back to the binary already on disk
InstallFailed_fallback(e) ==
    /\ emitted' = Append(emitted, Failed(e))
    /\ result' = Some(load_existing_binary(marker, platform, fs))
    /\ pc' = "finish"

\* download_and_install_binary on Err(e) that reports no status
InstallFailed_silent(e) ==
    /\ UNCHANGED emitted
    /\ result' = Some(Err(e))
    /\ pc' = "finish"

\* download_and_install_binary on Err(e) of install_binary
InstallFailed(e) ==
    /\ emitted' = Append(emitted, Failed(e))
    /\ result' = Some(Err(e))
    /\ pc' = "finish"

\* download_and_install_binary on Ok(path) of install_binary
InstallSucceeded(path) ==
    /\ result' = Some(Ok(CodebookBinary_new(path, LOG_LEVEL_INFO)))
    /\ pc' = "finish"
    /\ UNCHANGED emitted

version_dir == get_version_directory_path(release[1].version)
binary_path == join(version_dir, get_binary_filename(platform))

\* install_binary that downloads even when the binary is already there
InstallBinary_redownload ==
    /\ pc = "install"
    /\ LET asset == find_compatible_asset(release[1], platform) IN
       IF ~asset.ok
       THEN /\ InstallFailed(asset.val)
            /\ log' = log \o <<"install_binary", "find_compatible_asset failed">>
       ELSE /\ log' = Append(log, "install_binary")
            /\ pc' = "download"
            /\ UNCHANGED <<result, emitted>>
    /\ UNCHANGED <<platform, fs, marker, binary_cache, which, feed, release,
                   start, failed_before>>

\* install_binary that writes the version file before it downloads
InstallBinary_marker_first ==
    /\ pc = "install"
    /\ LET asset == find_compatible_asset(release[1], platform) IN
       IF ~asset.ok
       THEN /\ InstallFailed(asset.val)
            /\ log' = log \o <<"install_binary", "find_compatible_asset failed">>
            /\ UNCHANGED marker
       ELSE /\ log' = Append(log, "install_binary")
            /\ IF exists(binary_path, platform, fs)
               THEN InstallSucceeded(binary_path) /\ UNCHANGED marker
               ELSE /\ marker' = Some(release[1].version)
                    /\ pc' = "download"
                    /\ UNCHANGED <<result, emitted>>
    /\ UNCHANGED <<platform, fs, binary_cache, which, feed, release, start,
                   failed_before>>

InstallBinary ==
    /\ pc = "install"
    /\ LET asset == find_compatible_asset(release[1], platform) IN
       IF ~asset.ok
       THEN /\ InstallFailed(asset.val)
            /\ log' = log \o <<"install_binary", "find_compatible_asset failed">>
       ELSE /\ log' = Append(log, "install_binary")
            /\ IF exists(binary_path, platform, fs)
               THEN InstallSucceeded(binary_path)
               ELSE pc' = "download" /\ UNCHANGED <<result, emitted>>
    /\ UNCHANGED <<platform, fs, marker, binary_cache, which, feed, release,
                   start,
                   failed_before>>

\* zed::download_file into the version directory: it succeeds, fails having
\* created nothing, or fails having left the directory without the binary
DownloadFile ==
    /\ pc = "download"
    /\ \E outcome \in {"ok", "failed", "partial"} :
         /\ CASE outcome = "ok" ->
                   /\ fs' = [fs EXCEPT ![file_name(version_dir)] = "dirbin"]
                   /\ pc' = "chmod"
                   /\ UNCHANGED <<result, emitted>>
              [] outcome = "failed" ->
                   /\ UNCHANGED fs
                   /\ InstallFailed(<<"Failed to download binary: ">>)
              [] outcome = "partial" ->
                   /\ fs' = [fs EXCEPT ![file_name(version_dir)] = "dir"]
                   /\ InstallFailed(<<"Failed to download binary: ">>)
         /\ log' = Append(log, IF outcome = "ok" THEN "download_file"
                                ELSE "download_file failed")
    /\ UNCHANGED <<platform, marker, binary_cache, which, feed, release, start,
                   failed_before>>

MakeFileExecutable ==
    /\ pc = "chmod"
    /\ \E ok \in BOOLEAN :
         /\ IF ok
            THEN /\ fs' = [fs EXCEPT ![file_name(version_dir)] = "dirbinx"]
                 /\ pc' = "write"
                 /\ UNCHANGED <<result, emitted>>
            ELSE /\ UNCHANGED fs
                 /\ InstallFailed(<<"Failed to make binary executable: ">>)
         /\ log' = Append(log, IF ok THEN "make_file_executable"
                                ELSE "make_file_executable failed")
    /\ UNCHANGED <<platform, marker, binary_cache, which, feed, release, start,
                   failed_before>>

WriteVersionFile ==
    /\ pc = "write"
    /\ \E ok \in BOOLEAN :
         /\ IF ok
            THEN /\ marker' = Some(release[1].version)
                 /\ pc' = "cleanup"
                 /\ UNCHANGED <<result, emitted>>
            ELSE /\ UNCHANGED marker
                 /\ InstallFailed(<<"Failed to write version file: ">>)
         /\ log' = Append(log, IF ok THEN "write_version_file"
                                ELSE "write_version_file failed")
    /\ UNCHANGED <<platform, fs, binary_cache, which, feed, release, start,
                   failed_before>>

\* cleanup_old_versions: listing the directory fails; or reading an entry
\* fails after some entries were handled; or every entry is handled.  A
\* remove_dir_all that fails is only logged.
CleanupOldVersions ==
    /\ pc = "cleanup"
    /\ \E outcome \in {"ok", "read_dir failed", "entry failed"} :
       \E removed \in SUBSET cleanup_candidates(fs, marker, version_dir) :
         /\ outcome = "read_dir failed" => removed = {}
         /\ fs' = [n \in DOMAIN fs |-> IF n \in removed THEN "absent" ELSE fs[n]]
         /\ marker' = IF VERSION_FILE \in removed THEN None ELSE marker
         /\ CASE outcome = "ok" -> InstallSucceeded(binary_path)
              [] outcome = "read_dir failed" ->
                    InstallFailed(<<"Failed to read directory: ">>)
              [] outcome = "entry failed" ->
                    InstallFailed(<<"Failed to read directory entry: ">>)
         /\ log' = log
                \o (IF outcome # "read_dir failed"
                       /\ removed # cleanup_candidates(fs, marker, version_dir)
                    THEN <<"remove_dir_all failed">> ELSE <<>>)
                \o (CASE outcome = "ok" -> <<"cleanup_old_versions">>
                      [] outcome = "read_dir failed" -> <<"read_dir failed">>
                      [] outcome = "entry failed" -> <<"read_dir entry failed">>)
    /\ UNCHANGED <<platform, binary_cache, which, feed, release, start,
                   failed_before>>

\* the tail of ensure_latest_binary without the cache update
Finish_no_cache ==
    /\ pc = "finish"
    /\ IF result[1].ok
       THEN emitted' = Append(emitted, StatusNone)
       ELSE UNCHANGED emitted
    /\ pc' = "done"
    /\ UNCHANGED <<platform, fs, marker, binary_cache, which, feed, release,
                   result, log, start, failed_before>>

\* the tail of ensure_latest_binary
Finish ==
    /\ pc = "finish"
    /\ IF result[1].ok
       THEN /\ binary_cache' = Some(result[1].val.path)
            /\ emitted' = Append(emitted, StatusNone)
       ELSE UNCHANGED <<binary_cache, emitted>>
    /\ pc' = "done"
    /\ UNCHANGED <<platform, fs, marker, which, feed, release, result, log,
                   start,
                   failed_before>>

\* the call has returned result; the next call starts afresh
Return ==
    /\ pc = "done"
    /\ pc' = "idle"
    /\ which' = None
    /\ feed' = None
    /\ release' = None
    /\ result' = None
    /\ emitted' = <<>>
    /\ log' = <<>>
    /\ start' = None
    /\ failed_before' = ~result[1].ok
    /\ UNCHANGED <<platform, fs, marker, binary_cache>>

-----------------------------------------------------------------------------
(* Between calls: the user, and the host restarting the extension *)

EnvDevBinary ==
    /\ pc = "idle"
    /\ fs' = [fs EXCEPT ![EXTENSION_LSP_NAME] =
                IF @ = "absent" THEN "file" ELSE "absent"]
    /\ UNCHANGED <<platform, marker, binary_cache, pc, which, feed, release,
                   result, emitted, log, start,
                   failed_before>>

\* a version directory, or the binary in it, is deleted
EnvDamage ==
    /\ pc = "idle"
    /\ \E n \in VersionDirNames, k \in {"absent", "dir"} :
         /\ fs[n] # "absent"
         /\ fs[n] # k
         /\ fs' = [fs EXCEPT ![n] = k]
    /\ UNCHANGED <<platform, marker, binary_cache, pc, which, feed, release,
                   result, emitted, log, start,
                   failed_before>>

EnvWriteMarker ==
    /\ pc = "idle"
    /\ \E m \in MarkerContents : m # marker /\ marker' = m
    /\ UNCHANGED <<platform, fs, binary_cache, pc, which, feed, release,
                   result, emitted, log, start,
                   failed_before>>

\* the host starts a new extension instance: CodebookExtension::new()
Restart ==
    /\ pc = "idle"
    /\ binary_cache # None \/ failed_before
    /\ binary_cache' = None
    /\ failed_before' = FALSE
    /\ UNCHANGED <<platform, fs, marker, pc, which, feed, release, result,
                   emitted, log, start>>

Next ==
    \/ GetBinary
    \/ EnsureLatestBinary
    \/ CheckForUpdate
    \/ LoadExistingBinary
    \/ InstallBinary
    \/ DownloadFile
    \/ MakeFileExecutable
    \/ WriteVersionFile
    \/ CleanupOldVersions
    \/ Finish
    \/ Return
    \/ EnvDevBinary
    \/ EnvDamage
    \/ EnvWriteMarker
    \/ Restart

Spec == Init /\ [][Next]_vars

-----------------------------------------------------------------------------
(* Vocabulary of the properties, spelled out independently of the model's *)
(* operators                                                              *)

InCall == pc # "idle"
InLog(op) == \E i \in 1..Len(log) : log[i] = op
Count(op) == Cardinality({i \in 1..Len(log) : log[i] = op})

DevHandle ==
    [path |-> <<<<"codebook-lsp">>>>,
     env |-> <<<<"RUST_LOG", "debug">>, <<"RUST_BACKTRACE", "1">>>>]
InfoHandle(path) == [path |-> path, env |-> <<<<"RUST_LOG", "info">>>>]

BinaryName ==
    IF platform.os = "Windows" THEN <<"codebook-lsp", ".exe">>
    ELSE <<"codebook-lsp">>
VersionDirName(v) == <<"codebook-lsp", "-">> \o v
VersionedBinary(v) == <<VersionDirName(v), BinaryName>>

\* the binary of a two-component path is on disk in directory state dir
OnDisk(path, dir) ==
    /\ Len(path) = 2
    /\ path[1] \in DOMAIN dir
    /\ dir[path[1]] \in {"dirbin", "dirbinx"}
    /\ path[2] = BinaryName

DevAtStart == InCall /\ start[1].fs[<<"codebook-lsp">>] # "absent"
CacheValidAtStart ==
    /\ InCall
    /\ start[1].cache # None
    /\ OnDisk(start[1].cache[1], start[1].fs)
StaleCacheAtStart ==
    /\ InCall
    /\ start[1].cache # None
    /\ ~OnDisk(start[1].cache[1], start[1].fs)
LocalMiss == InCall /\ ~DevAtStart /\ which = None /\ ~CacheValidAtStart

UpdatePathEntered ==
    pc = "ensure" \/ (emitted # <<>> /\ emitted[1].tag = "CheckingForUpdate")

Returned(handle) ==
    pc = "done" /\ result # None /\ result[1].ok /\ result[1].val = handle
ReturnedError == pc = "done" /\ result # None /\ ~result[1].ok
ReturnedLocally(handle) == Returned(handle) /\ emitted = <<>> /\ log = <<>>

-----------------------------------------------------------------------------
(* C1: get_binary resolves in strict priority order on every call: the     *)
(* development binary, when present, is returned with debug logging even   *)
(* when a PATH entry and a valid cache exist; otherwise the PATH entry is   *)
(* returned even when a valid cache exists; otherwise a cached path that    *)
(* still exists is returned; only otherwise is the update path entered.     *)
C1_PriorityOrder ==
    InCall =>
        /\ DevAtStart => ReturnedLocally(DevHandle)
        /\ ~DevAtStart /\ which # None => ReturnedLocally(InfoHandle(which[1]))
        /\ ~DevAtStart /\ which = None /\ CacheValidAtStart
              => ReturnedLocally(InfoHandle(start[1].cache[1]))
        /\ LocalMiss => UpdatePathEntered

C1_Witness ==
    /\ Returned(DevHandle)
    /\ DevAtStart
    /\ which # None
    /\ CacheValidAtStart

(* C2: the release query, and therefore any download, is performed in a    *)
(* get_binary call only if in that call the development binary is absent,  *)
(* the PATH lookup returns nothing and the cache is empty or points at a    *)
(* path that no longer exists; it is performed at most once per call.       *)
C2_QueryOnlyOnMiss ==
    InCall =>
        /\ (pc = "check" \/ log # <<>>) => LocalMiss
        /\ Count("latest_github_release")
              + Count("latest_github_release failed") <= 1
        /\ Count("download_file") + Count("download_file failed") <= 1

C2_Witness ==
    /\ pc = "done"
    /\ StaleCacheAtStart
    /\ InLog("latest_github_release")
    /\ InLog("download_file")

(* C3: when the cache holds a path that does not exist on disk, the cache  *)
(* step returns no handle: that path is returned only if the update path    *)
(* produced it again, and without a development binary or PATH entry the    *)
(* call falls through to the update path.                                   *)
C3_StaleCacheNotReturned ==
    InCall /\ StaleCacheAtStart =>
        /\ Returned(InfoHandle(start[1].cache[1]))
              => /\ UpdatePathEntered
                 /\ OnDisk(start[1].cache[1], fs)
        /\ ~DevAtStart /\ which = None => UpdatePathEntered

C3_Witness ==
    /\ StaleCacheAtStart
    /\ ~DevAtStart
    /\ which = None
    /\ Returned(InfoHandle(start[1].cache[1]))

-----------------------------------------------------------------------------
(* Vocabulary of the update path *)

\* marker content m names version v: v, possibly padded by a newline
Names(m, v) == m # None /\ (m[1] = v \/ m[1] = v \o <<"\n">>)

InstallerInvoked == pc = "install" \/ InLog("install_binary")

InstallFailures ==
    {"find_compatible_asset failed", "download_file failed",
     "make_file_executable failed", "write_version_file failed",
     "read_dir failed", "read_dir entry failed"}
InstallFailureLogged == \E i \in 1..Len(log) : log[i] \in InstallFailures

LastStatus == emitted[Len(emitted)].tag
IsPrefixed(n) == Len(n) >= 2 /\ n[1] = "codebook-lsp" /\ n[2] = "-"

(* C4: in the update path the Installer is invoked if and only if the      *)
(* release query succeeds and the marker is absent or its trimmed content   *)
(* differs from the release version; equal versions never install, and an   *)
(* older release than the installed one still does.                         *)
C4_InstallIffVersionDiffers ==
    InCall =>
        IF feed = None THEN ~InstallerInvoked
        ELSE InstallerInvoked
                <=> /\ feed[1].ok
                    /\ ~Names(start[1].marker, feed[1].val.version)

C4_Witness ==
    /\ pc = "done"
    /\ feed # None
    /\ feed[1].ok
    /\ feed[1].val.version = <<"1">>
    /\ start[1].marker = Some(<<"2", "\n">>)
    /\ InLog("install_binary")
    /\ InLog("download_file")

(* C5: when the release query fails or reports the installed version, and  *)
(* the marker is readable and its versioned binary exists, get_binary       *)
(* returns that path with info logging, stores it in the cache, ends with   *)
(* status None and attempts no download.                                    *)
C5_LoadsExistingBinary ==
    \A v \in Versions :
        (/\ pc = "done"
         /\ feed # None
         /\ ~feed[1].ok \/ feed[1].val.version = v
         /\ Names(start[1].marker, v)
         /\ OnDisk(VersionedBinary(v), start[1].fs))
        => /\ Returned(InfoHandle(VersionedBinary(v)))
           /\ binary_cache = Some(VersionedBinary(v))
           /\ LastStatus = "None"
           /\ ~InstallerInvoked
           /\ ~InLog("download_file") /\ ~InLog("download_file failed")

C5_Witness ==
    /\ pc = "done"
    /\ feed # None
    /\ ~feed[1].ok
    /\ start[1].marker = Some(<<"1", "\n">>)
    /\ StaleCacheAtStart
    /\ Returned(InfoHandle(VersionedBinary(<<"1">>)))

(* C6: when an update is available and the Installer fails at any step,    *)
(* Failed is the last status emitted, get_binary returns the error, the     *)
(* cache is unchanged and the previously installed binary is not returned   *)
(* even when the marker's versioned binary is still on disk.                *)
C6_InstallFailurePropagates ==
    pc = "done" /\ InstallFailureLogged =>
        /\ ReturnedError
        /\ LastStatus = "Failed"
        /\ binary_cache = start[1].cache

C6_Witness ==
    /\ pc = "done"
    /\ InLog("download_file failed")
    /\ ReturnedError
    /\ \E v \in Versions : Names(marker, v) /\ OnDisk(VersionedBinary(v), fs)

(* C7: whenever the download, extraction or mark-executable step of an     *)
(* install fails, the versioned directory the install created is deleted    *)
(* before the error is returned, so none remains for the failed version.    *)
C7_RollbackOnFailure ==
    (/\ pc = "done"
     /\ InLog("download_file failed") \/ InLog("make_file_executable failed")
     /\ start[1].fs[VersionDirName(release[1].version)] = "absent")
    => fs[VersionDirName(release[1].version)] = "absent"

(* C8: cleanup_old_versions never deletes an entry whose name does not     *)
(* start with 'codebook-lsp-', never deletes an entry that is not a         *)
(* directory, never deletes the just-installed version's directory, and     *)
(* changes nothing else.                                                    *)
C8_CleanupSparesOthers ==
    [][pc = "cleanup" =>
         /\ marker' = marker
         /\ \A n \in DOMAIN fs :
              fs'[n] # fs[n] =>
                 /\ fs'[n] = "absent"
                 /\ IsPrefixed(n)
                 /\ fs[n] \in {"dir", "dirbin", "dirbinx"}
                 /\ n # VersionDirName(release[1].version)]_vars

C8_Witness ==
    /\ InLog("cleanup_old_versions")
    /\ \E n \in DOMAIN fs : start[1].fs[n] = "dirbinx" /\ fs[n] = "absent"
    /\ fs[VersionDirName(release[1].version)] = "dirbinx"
    /\ fs[<<"codebook-lsp", "-", "notes">>] = "file"
    /\ fs[<<"codebook", "-", "1">>] = "dirbin"

(* C9: a failure during cleanup of stale version directories (listing the  *)
(* working directory, reading an entry, removing a directory) never makes   *)
(* the install fail: once the binary is downloaded, made executable and     *)
(* the marker written, the binary path is returned.                         *)
C9_CleanupNeverFailsInstall ==
    pc = "done" /\ InLog("write_version_file")
        => Returned(InfoHandle(VersionedBinary(release[1].version)))

(* C10 as stated: with no development binary, no PATH entry, an empty      *)
(* cache and a marker naming a version whose directory does not exist,      *)
(* get_binary fails.                                                        *)
C10_FailsOnMissingDirectory ==
    \A v \in Versions :
        (/\ pc = "done"
         /\ ~DevAtStart /\ which = None /\ start[1].cache = None
         /\ Names(start[1].marker, v)
         /\ start[1].fs[VersionDirName(v)] = "absent")
        => ReturnedError

(* C10 amended: in that situation get_binary fails, without installing and *)
(* leaving the cache empty, whenever the release query fails or returns     *)
(* the version the marker names.                                            *)
C10_FailsUnlessUpdateAvailable ==
    \A v \in Versions :
        (/\ pc = "done"
         /\ ~DevAtStart /\ which = None /\ start[1].cache = None
         /\ Names(start[1].marker, v)
         /\ start[1].fs[VersionDirName(v)] = "absent"
         /\ feed # None
         /\ ~feed[1].ok \/ feed[1].val.version = v)
        => /\ ReturnedError
           /\ ~InstallerInvoked
           /\ binary_cache = None

C10_Witness ==
    /\ pc = "done"
    /\ ~DevAtStart /\ which = None /\ start[1].cache = None
    /\ Names(start[1].marker, <<"1">>)
    /\ start[1].fs[VersionDirName(<<"1">>)] = "absent"
    /\ feed # None /\ feed[1].ok /\ feed[1].val.version = <<"1">>
    /\ ReturnedError

-----------------------------------------------------------------------------
(* Vocabulary of the installer *)

\* the asset file name and the descriptor of each supported platform
ExpectedAsset(os, arch) ==
    CASE os = "Mac" /\ arch = "Aarch64" ->
           <<<<"codebook-lsp", "-", "aarch64", "-", "apple-darwin", ".", "tar.gz">>,
             <<"aarch64", "-", "apple-darwin">>>>
      [] os = "Mac" /\ arch = "X8664" ->
           <<<<"codebook-lsp", "-", "x86_64", "-", "apple-darwin", ".", "tar.gz">>,
             <<"x86_64", "-", "apple-darwin">>>>
      [] os = "Linux" /\ arch = "Aarch64" ->
           <<<<"codebook-lsp", "-", "aarch64", "-", "unknown-linux-musl", ".",
               "tar.gz">>,
             <<"aarch64", "-", "unknown-linux-musl">>>>
      [] os = "Linux" /\ arch = "X8664" ->
           <<<<"codebook-lsp", "-", "x86_64", "-", "unknown-linux-musl", ".",
               "tar.gz">>,
             <<"x86_64", "-", "unknown-linux-musl">>>>
      [] os = "Windows" /\ arch = "Aarch64" ->
           <<<<"codebook-lsp", "-", "aarch64", "-", "pc-windows-msvc", ".", "zip">>,
             <<"aarch64", "-", "pc-windows-msvc">>>>
      [] os = "Windows" /\ arch = "X8664" ->
           <<<<"codebook-lsp", "-", "x86_64", "-", "pc-windows-msvc", ".", "zip">>,
             <<"x86_64", "-", "pc-windows-msvc">>>>

\* the release rel carries the asset of the running platform
HasAsset(rel) ==
    /\ platform.arch # "X86"
    /\ \E i \in 1..Len(rel.assets) :
         rel.assets[i].name = ExpectedAsset(platform.os, platform.arch)[1]

\* operations of the host and the OS that failed in the running call
IOFailures ==
    {"latest_github_release failed", "download_file failed",
     "make_file_executable failed", "write_version_file failed",
     "read_dir failed", "read_dir entry failed", "remove_dir_all failed"}
IOFailureLogged == \E i \in 1..Len(log) : log[i] \in IOFailures

FreshAtStart ==
    /\ InCall
    /\ ~DevAtStart
    /\ which = None
    /\ start[1].cache = None
    /\ start[1].marker = None
    /\ \A v \in Versions : start[1].fs[VersionDirName(v)] = "absent"

(* C11: from a fresh environment, with the feed returning version V with   *)
(* an asset for the platform and all I/O succeeding, get_binary downloads   *)
(* into 'codebook-lsp-V', marks the binary executable, writes marker V and  *)
(* returns 'codebook-lsp-V/<binary filename>' with RUST_LOG=info; the       *)
(* cache then holds that path and the last status is None.                  *)
C11_FreshInstall ==
    (/\ pc = "done"
     /\ FreshAtStart
     /\ feed # None /\ feed[1].ok /\ HasAsset(feed[1].val)
     /\ ~IOFailureLogged)
    => LET V == feed[1].val.version IN
       /\ log = <<"latest_github_release", "install_binary", "download_file",
                  "make_file_executable", "write_version_file",
                  "cleanup_old_versions">>
       /\ fs = [start[1].fs EXCEPT ![VersionDirName(V)] = "dirbinx"]
       /\ marker = Some(V)
       /\ Returned(InfoHandle(VersionedBinary(V)))
       /\ binary_cache = Some(VersionedBinary(V))
       /\ LastStatus = "None"

C11_Witness ==
    /\ pc = "done"
    /\ FreshAtStart
    /\ platform = [os |-> "Windows", arch |-> "Aarch64"]
    /\ marker = Some(<<"1">>)
    /\ Returned(InfoHandle(<<<<"codebook-lsp", "-", "1">>,
                             <<"codebook-lsp", ".exe">>>>))

(* C12 as stated: if the expected binary path of the release's version     *)
(* already exists, install_binary performs no download, no marker write     *)
(* and no cleanup, leaves the filesystem unchanged and returns that path.   *)
C12_IdempotentInstall ==
    (/\ InCall
     /\ InLog("install_binary")
     /\ OnDisk(VersionedBinary(release[1].version), start[1].fs))
    => /\ pc \in {"finish", "done"}
       /\ result = Some(Ok(InfoHandle(VersionedBinary(release[1].version))))
       /\ log = <<"latest_github_release", "install_binary">>
       /\ fs = start[1].fs
       /\ marker = start[1].marker

(* C12 amended: the same, provided the release carries an asset for the    *)
(* platform; without one install_binary returns the asset error, and in     *)
(* both cases nothing is downloaded, written or removed.                    *)
C12_IdempotentInstallWithAsset ==
    (/\ InCall
     /\ InLog("install_binary")
     /\ OnDisk(VersionedBinary(release[1].version), start[1].fs))
    => /\ pc \in {"finish", "done"}
       /\ IF HasAsset(release[1])
          THEN /\ result
                    = Some(Ok(InfoHandle(VersionedBinary(release[1].version))))
               /\ log = <<"latest_github_release", "install_binary">>
          ELSE /\ ~result[1].ok
               /\ log = <<"latest_github_release", "install_binary",
                          "find_compatible_asset failed">>
       /\ fs = start[1].fs
       /\ marker = start[1].marker

C12_Witness ==
    /\ pc = "done"
    /\ failed_before
    /\ InLog("install_binary")
    /\ OnDisk(VersionedBinary(release[1].version), start[1].fs)
    /\ Returned(InfoHandle(VersionedBinary(release[1].version)))

(* C13: a failed resolution does not poison later calls: the call after  *)
(* one that returned an error runs the whole chain again from the           *)
(* development override, and returns a handle whenever a step can produce   *)
(* one: the development binary or a PATH entry has appeared, the cache is   *)
(* valid, or the feed offers an update and the install now succeeds.        *)
C13_FailureDoesNotPoison ==
    InCall /\ failed_before =>
        /\ DevAtStart => ReturnedLocally(DevHandle)
        /\ ~DevAtStart /\ which # None => ReturnedLocally(InfoHandle(which[1]))
        /\ ~DevAtStart /\ which = None /\ CacheValidAtStart
              => ReturnedLocally(InfoHandle(start[1].cache[1]))
        /\ LocalMiss => UpdatePathEntered
        /\ (/\ pc = "done"
            /\ LocalMiss
            /\ feed # None /\ feed[1].ok /\ HasAsset(feed[1].val)
            /\ ~Names(start[1].marker, feed[1].val.version)
            /\ ~IOFailureLogged)
           => Returned(InfoHandle(VersionedBinary(feed[1].val.version)))

C13_Witness ==
    /\ pc = "done"
    /\ failed_before
    /\ LocalMiss
    /\ InLog("download_file")
    /\ Returned(InfoHandle(VersionedBinary(feed[1].val.version)))

(* C14 as stated: the cache is empty at construction and, after any      *)
(* successful get_binary resolution, holds the path of the returned handle. *)
C14_CacheHoldsReturnedPath ==
    /\ binary_cache = None
    /\ [](pc = "done" /\ result[1].ok
            => binary_cache = Some(result[1].val.path))

(* C14 amended: the cache is empty at construction; after a successful     *)
(* resolution through the cache step or the update path it holds the path  *)
(* of the returned handle; a resolution answered by the development         *)
(* override or the PATH lookup leaves the cache as it was.                  *)
C14_CacheAfterResolution ==
    /\ binary_cache = None
    /\ [](pc = "done" /\ result[1].ok
            => IF DevAtStart \/ which # None
               THEN binary_cache = start[1].cache
               ELSE binary_cache = Some(result[1].val.path))

C14_Witness ==
    /\ pc = "done"
    /\ result[1].ok
    /\ InLog("write_version_file")
    /\ start[1].cache # binary_cache
    /\ binary_cache = Some(result[1].val.path)

(* C15: asset_name is a total function of (OS, architecture): on the six  *)
(* pairs with Aarch64 or X8664 it returns the fixed descriptor and file    *)
(* name (zip on Windows, tar.gz on Mac and Linux), on X86 it returns an     *)
(* error for every OS; an install therefore downloads only when the        *)
(* release carries exactly that file name, and fails before any download   *)
(* otherwise.                                                               *)
C15_AssetNameTable ==
    /\ \A os \in Oses, arch \in Architectures :
         IF arch = "X86"
         THEN ~asset_name(os, arch).ok
         ELSE asset_name(os, arch) = Ok(ExpectedAsset(os, arch))
    /\ InCall /\ (pc = "download" \/ InLog("download_file")
                    \/ InLog("download_file failed"))
         => HasAsset(release[1])
    /\ InCall /\ InLog("install_binary") /\ ~HasAsset(release[1])
         => /\ InLog("find_compatible_asset failed")
            /\ fs = start[1].fs
            /\ pc = "done" => ReturnedError

C15_Witness ==
    /\ pc = "done"
    /\ platform.os = "Windows"
    /\ platform.arch = "Aarch64"
    /\ InLog("download_file")
    /\ \E i \in 1..Len(release[1].assets) :
         release[1].assets[i].name
           = <<"codebook-lsp", "-", "aarch64", "-", "pc-windows-msvc", ".", "zip">>

(* C16: whenever a resolution returns successfully through the            *)
(* update-available branch for a release of version V, the version marker   *)
(* afterwards names V.                                                      *)
C16_MarkerNamesInstalled ==
    pc = "done" /\ InLog("install_binary") /\ result[1].ok
        => marker = Some(release[1].version)

\* the tags of the statuses emitted so far in the running call
Tags == [i \in 1..Len(emitted) |-> emitted[i].tag]

StatusSequences ==
    { <<"CheckingForUpdate", "Downloading", "None">>,
      <<"CheckingForUpdate", "Downloading", "Failed">>,
      <<"CheckingForUpdate", "None">>,
      <<"CheckingForUpdate">> }

\* the feed answered with a release whose version the marker does not name
UpdateAvailable ==
    feed # None /\ feed[1].ok /\ ~Names(start[1].marker, feed[1].val.version)

(* C17: the statuses emitted by one entry into the update path are exactly *)
(* CheckingForUpdate, Downloading, None when the install succeeded;        *)
(* CheckingForUpdate, Downloading, Failed when it failed;                  *)
(* CheckingForUpdate, None when the existing binary was loaded; and        *)
(* CheckingForUpdate alone when it could not be loaded.  Downloading is    *)
(* emitted only when an update is available and Failed if and only if the  *)
(* installer was invoked and failed.                                       *)
C17_StatusSequences ==
    /\ InCall => \E full \in StatusSequences :
                   /\ Len(Tags) <= Len(full)
                   /\ \A i \in 1..Len(Tags) : Tags[i] = full[i]
    /\ InCall /\ (\E i \in 1..Len(Tags) : Tags[i] = "Downloading")
         => UpdateAvailable
    /\ pc = "done" /\ UpdatePathEntered =>
         /\ InstallerInvoked <=> UpdateAvailable
         /\ InstallerInvoked /\ result[1].ok
              => Tags = <<"CheckingForUpdate", "Downloading", "None">>
         /\ InstallerInvoked /\ ~result[1].ok
              => Tags = <<"CheckingForUpdate", "Downloading", "Failed">>
         /\ ~InstallerInvoked /\ result[1].ok
              => Tags = <<"CheckingForUpdate", "None">>
         /\ ~InstallerInvoked /\ ~result[1].ok
              => Tags = <<"CheckingForUpdate">>

C17_Witness ==
    /\ pc = "done"
    /\ ReturnedError
    /\ InLog("latest_github_release failed")
    /\ Tags = <<"CheckingForUpdate">>
    /\ LastStatus = "CheckingForUpdate"

\* entry i of the log directly follows an entry of the set prev
Follows(i, prev) == i > 1 /\ log[i - 1] \in prev

\* a version directory present when the call started is gone
OldVersionRemoved ==
    /\ InCall
    /\ \E n \in DOMAIN fs :
         /\ IsPrefixed(n)
         /\ start[1].fs[n] \in {"dir", "dirbin", "dirbinx"}
         /\ fs[n] = "absent"

(* C18: within an install the steps are ordered download, mark executable, *)
(* write marker, cleanup, each starting only after the previous one        *)
(* succeeded; the marker is rewritten to the new version only when that    *)
(* version's binary is on disk, and whenever an old version directory has  *)
(* been removed the marker names the new version and its binary exists.    *)
C18_InstallOrder ==
    /\ \A i \in 1..Len(log) :
         /\ log[i] \in {"download_file", "download_file failed"}
              => Follows(i, {"install_binary"})
         /\ log[i] \in {"make_file_executable", "make_file_executable failed"}
              => Follows(i, {"download_file"})
         /\ log[i] \in {"write_version_file", "write_version_file failed"}
              => Follows(i, {"make_file_executable"})
         /\ log[i] = "remove_dir_all failed"
              => Follows(i, {"write_version_file"})
         /\ log[i] \in {"cleanup_old_versions", "read_dir failed",
                        "read_dir entry failed"}
              => Follows(i, {"write_version_file", "remove_dir_all failed"})
    /\ InCall /\ marker # start[1].marker
         => /\ marker = Some(release[1].version)
            /\ fs[VersionDirName(release[1].version)] = "dirbinx"
            /\ InLog("write_version_file")
    /\ OldVersionRemoved
         => /\ marker = Some(release[1].version)
            /\ OnDisk(VersionedBinary(release[1].version), fs)
            /\ InLog("write_version_file")

C18_Witness ==
    /\ pc = "done"
    /\ OldVersionRemoved
    /\ start[1].marker # marker
    /\ start[1].marker # None
    /\ InLog("cleanup_old_versions")
    /\ Returned(InfoHandle(VersionedBinary(release[1].version)))

\* the running call is answered before the update path
AnsweredLocally == DevAtStart \/ (InCall /\ which # None) \/ CacheValidAtStart

(* C19: a get_binary call answered by the development override, the PATH   *)
(* lookup or a valid in-memory cache hit changes nothing: cache, marker    *)
(* and directories are as before and no status is emitted; the cache is    *)
(* written only by a successful return from the update path.               *)
C19_LocalAnswerChangesNothing ==
    /\ AnsweredLocally
         => /\ pc = "done"
            /\ result[1].ok
            /\ binary_cache = start[1].cache
            /\ marker = start[1].marker
            /\ fs = start[1].fs
            /\ emitted = <<>>
            /\ log = <<>>
    /\ InCall /\ binary_cache # start[1].cache
         => /\ pc = "done"
            /\ UpdatePathEntered
            /\ result[1].ok
            /\ binary_cache = Some(result[1].val.path)

C19_Witness ==
    /\ pc = "done"
    /\ ~DevAtStart
    /\ which # None
    /\ Returned(InfoHandle(which[1]))
    /\ binary_cache = None
    /\ marker # None
    /\ \E n \in VersionDirNames : fs[n] # "absent"

\* at the start of the call the marker names v, the binary of v is missing,
\* there is no development binary and no PATH entry, and the feed, when it
\* is asked, returns version v
BrokenInstall(v) ==
    /\ InCall
    /\ Names(start[1].marker, v)
    /\ ~OnDisk(VersionedBinary(v), start[1].fs)
    /\ ~DevAtStart
    /\ which = None
    /\ feed # None => feed[1].ok /\ feed[1].val.version = v

NothingRepaired ==
    /\ ~InstallerInvoked
    /\ marker = start[1].marker
    /\ fs = start[1].fs
    /\ binary_cache = start[1].cache

(* C20 as stated: with the marker naming V, the binary of V missing, no    *)
(* development binary or PATH entry and the feed returning V, every        *)
(* get_binary call fails without invoking the installer and without        *)
(* changing the marker, the directories or the cache.                      *)
C20_NoRepair ==
    \A v \in Versions :
        BrokenInstall(v) => NothingRepaired /\ (pc = "done" => ReturnedError)

(* C20 amended: under the same conditions no get_binary call invokes the  *)
(* installer or changes the marker, the directories or the cache, and      *)
(* every such call fails unless the in-memory cache still holds a path     *)
(* that exists, which is then returned.                                    *)
C20_NoRepairUnlessCached ==
    \A v \in Versions :
        BrokenInstall(v) =>
            /\ NothingRepaired
            /\ pc = "done" /\ ~CacheValidAtStart => ReturnedError
            /\ pc = "done" /\ CacheValidAtStart
                 => ReturnedLocally(InfoHandle(start[1].cache[1]))

C20_Witness ==
    /\ pc = "done"
    /\ failed_before
    /\ \E v \in Versions :
         /\ BrokenInstall(v)
         /\ feed # None
         /\ start[1].fs[VersionDirName(v)] = "dir"
    /\ ReturnedError
    /\ Tags = <<"CheckingForUpdate">>

====
